---- MODULE Spec2Model ----
(***************************************************************************)
(* Sockets: the three open, int32_t-backed enumerations AddressFamily,     *)
(* SocketType and IPProtocol, whose enumerators are bound to the           *)
(* constants of the operating system's networking headers.                 *)
(*                                                                         *)
(* The headers declare types only.  The operations a C caller has on such  *)
(* a type are: convert an integer to the type, name an enumerator,         *)
(* convert a value back to its integer, and compare two values with ==.    *)
(* The model applies these operations, on inputs drawn from bounded sets,  *)
(* in one caller (Spec), in several threads that each own their locals     *)
(* (SpecThreads), and in a caller that selects the three arguments of      *)
(* socket(domain, type, protocol) (SpecSocket).                            *)
(***************************************************************************)
EXTENDS Integers, FiniteSets, Sequences, TLC

VARIABLES
    platform,    \* the platform whose headers the build includes
    x,           \* x[t]: the enumeration value thread t holds
    from,        \* from[t]: the construction that produced x[t] (history)
    ret,         \* ret[t]: result of the last operation on x[t]
    params,      \* the caller's (domain, type, protocol) enumeration values
    paramsFrom,  \* the construction that produced each component (history)
    sysargs,     \* the three raw integers handed to socket()
    pc           \* "select" or "called"

vars == <<platform, x, from, ret, params, paramsFrom, sysargs, pc>>

----------------------------------------------------------------------------
(* Bounds *)

NThreads == 2
Spread == 1

Threads == 1..NThreads

\* the thread of a program that starts no other
Main == CHOOSE t \in Threads : \A u \in Threads : t <= u

----------------------------------------------------------------------------
(* Integers.  An integer n is held as the pair of its upper part and its   *)
(* low 16 bits, n = hi * 2^16 + lo with lo in 0 .. 2^16 - 1, so that the   *)
(* ends of the 32-bit range and integers beyond them can be written and    *)
(* the conversions between integer types can be computed bit for bit.      *)

Width == 32

Half == Width \div 2
Radix == 2^Half

Num(n) == [hi |-> n \div Radix, lo |-> n % Radix]

\* two's complement value of the low w bits of k
Wrap(w, k) == ((k + 2^(w - 1)) % 2^w) - 2^(w - 1)

\* conversion of a to a signed integer type of w bits
ToSigned(w, a) ==
    IF w > Half THEN [hi |-> Wrap(w - Half, a.hi), lo |-> a.lo]
                ELSE Num(Wrap(w, a.lo))

\* conversion of a to an unsigned integer type of w bits
ToUnsigned(w, a) ==
    IF w > Half THEN [hi |-> a.hi % 2^(w - Half), lo |-> a.lo]
                ELSE Num(a.lo % 2^w)

INT32_MIN == [hi |-> -(2^(Half - 1)), lo |-> 0]
INT32_MAX == [hi |-> 2^(Half - 1) - 1, lo |-> Radix - 1]

\* a is a value of int32_t
InInt32(a) ==
    /\ a.hi \in -(2^(Half - 1))..(2^(Half - 1) - 1)
    /\ a.lo \in 0..(Radix - 1)

\* conversion to uint32_t
ToUint32(a) == ToUnsigned(Width, a)

\* conversion to the fixed underlying type of the three enumerations
ToInt32(a) == ToSigned(Width, a)

----------------------------------------------------------------------------
(* The platform's headers: the values of the macros the enumerators name.  *)
(* They are an input of the build; the same sources give different values  *)
(* on different platforms.                                                 *)

Headers ==
    [darwin  |-> [AF_UNIX |-> 1, AF_INET |-> 2, AF_INET6 |-> 30, AF_LINK |-> 18,
                  SOCK_STREAM |-> 1, SOCK_DGRAM |-> 2, SOCK_RAW |-> 3,
                  SOCK_SEQPACKET |-> 5,
                  IPPROTO_TCP |-> 6, IPPROTO_UDP |-> 17, IPPROTO_ICMP |-> 1,
                  IPPROTO_ICMPV6 |-> 58],
     freebsd |-> [AF_UNIX |-> 1, AF_INET |-> 2, AF_INET6 |-> 28, AF_LINK |-> 18,
                  SOCK_STREAM |-> 1, SOCK_DGRAM |-> 2, SOCK_RAW |-> 3,
                  SOCK_SEQPACKET |-> 5,
                  IPPROTO_TCP |-> 6, IPPROTO_UDP |-> 17, IPPROTO_ICMP |-> 1,
                  IPPROTO_ICMPV6 |-> 58],
     openbsd |-> [AF_UNIX |-> 1, AF_INET |-> 2, AF_INET6 |-> 24, AF_LINK |-> 18,
                  SOCK_STREAM |-> 1, SOCK_DGRAM |-> 2, SOCK_RAW |-> 3,
                  SOCK_SEQPACKET |-> 5,
                  IPPROTO_TCP |-> 6, IPPROTO_UDP |-> 17, IPPROTO_ICMP |-> 1,
                  IPPROTO_ICMPV6 |-> 58],
     solaris |-> [AF_UNIX |-> 1, AF_INET |-> 2, AF_INET6 |-> 26, AF_LINK |-> 25,
                  SOCK_STREAM |-> 2, SOCK_DGRAM |-> 1, SOCK_RAW |-> 4,
                  SOCK_SEQPACKET |-> 6,
                  IPPROTO_TCP |-> 6, IPPROTO_UDP |-> 17, IPPROTO_ICMP |-> 1,
                  IPPROTO_ICMPV6 |-> 58]]

Platforms == DOMAIN Headers

----------------------------------------------------------------------------
(* The three enumerations: enumerator |-> the macro it is bound to *)

AddressFamilySwapped ==
    [unix |-> "AF_UNIX", inet |-> "AF_INET6", inet6 |-> "AF_INET",
     link |-> "AF_LINK"]

AddressFamily ==
    [unix |-> "AF_UNIX", inet |-> "AF_INET", inet6 |-> "AF_INET6",
     link |-> "AF_LINK"]

SocketTypeCopied ==
    [stream |-> "SOCK_STREAM", datagram |-> "SOCK_DGRAM", raw |-> "SOCK_RAW",
     seqpacket |-> "SOCK_RAW"]

SocketType ==
    [stream |-> "SOCK_STREAM", datagram |-> "SOCK_DGRAM", raw |-> "SOCK_RAW",
     seqpacket |-> "SOCK_SEQPACKET"]

IPProtocol ==
    [tcp |-> "IPPROTO_TCP", udp |-> "IPPROTO_UDP", icmp |-> "IPPROTO_ICMP",
     icmpv6 |-> "IPPROTO_ICMPV6"]

Enums == {"AddressFamily", "SocketType", "IPProtocol"}

Binding(e) ==
    CASE e = "AddressFamily" -> AddressFamily
      [] e = "SocketType"    -> SocketType
      [] e = "IPProtocol"    -> IPProtocol

Enumerators(e) == DOMAIN Binding(e)

\* the value of enumerator v of e on platform p, with the macro's values of
\* platform "darwin" written out as literals
EnumeratorValueLiteral(p, e, v) ==
    ToInt32(Num(Headers["darwin"][Binding(e)[v]]))

\* the value of enumerator v of e on platform p: the macro's value, converted
\* to the underlying type
EnumeratorValue(p, e, v) == ToInt32(Num(Headers[p][Binding(e)[v]]))

----------------------------------------------------------------------------
(* Values and the operations on them *)

\* a variable of enumeration type e holding the integer i
Value(e, i) == [enum |-> e, rawValue |-> i]

Unset == Value("unset", Num(0))
Invalid == Value("invalid", Num(0))

IsValue(v) == v.enum \in Enums

\* (E)n for a closed enumeration: only the enumerators are values
FromRawClosed(p, e, n) ==
    IF \E v \in Enumerators(e) : EnumeratorValue(p, e, v) = n
    THEN Value(e, ToInt32(n)) ELSE Invalid

\* (E)n with a 16-bit underlying type
FromRaw16(p, e, n) == Value(e, ToSigned(Half, n))

\* (E)n: conversion of the integer n to enumeration e
FromRaw(p, e, n) == Value(e, ToInt32(n))

\* the enumerator v of e
Named(p, e, v) == Value(e, EnumeratorValue(p, e, v))

\* conversion through an 8-bit unsigned integer
ToRaw8(v) == ToUnsigned(8, v.rawValue)

\* conversion to the unsigned type of the same width
ToRawUnsigned(v) == ToUint32(v.rawValue)

\* (int32_t)v: conversion of a value to its underlying type
ToRaw(v) == ToInt32(v.rawValue)

\* a == b compared on the low 8 bits only
EqualLowByte(a, b) ==
    IF ToUnsigned(8, a.rawValue) = ToUnsigned(8, b.rawValue) THEN 1 ELSE 0

\* a == b: both operands are converted to their integer and compared; the
\* result is the int 1 or 0
Equal(a, b) == IF ToRaw(a) = ToRaw(b) THEN 1 ELSE 0

----------------------------------------------------------------------------
(* Inputs *)

\* the integers a caller converts to e: the ends of the range, some integers
\* no header names, and the neighbourhood of every enumerator
RawInputs(p, e) ==
    {INT32_MIN, INT32_MAX, Num(-1), Num(0), Num(9999), Num(65536 + 2)} \cup
    {Num(Headers[p][Binding(e)[v]] + d) :
        v \in Enumerators(e), d \in (-Spread)..Spread}

\* the integers the threads of SpecThreads convert
ThreadInputs(p, e) == {Num(9999)}

\* the enumerators the threads of SpecThreads name
ThreadNames(e) ==
    Enumerators(e) \cap {"inet6", "datagram", "icmpv6"}

----------------------------------------------------------------------------
(* History records *)

NoFrom == [kind |-> "none", enum |-> "unset", n |-> Num(0), name |-> ""]
RawFrom(e, n) == [kind |-> "raw", enum |-> e, n |-> n, name |-> ""]
NamedFrom(e, v) == [kind |-> "named", enum |-> e, n |-> Num(0), name |-> v]

\* op: the operation; n, name: its right operand; out: the integer read;
\* eq: the int a comparison gave
Ret(op, n, name, out, eq) ==
    [op |-> op, n |-> n, name |-> name, out |-> out, eq |-> eq]

NoRet == Ret("none", Num(0), "", Num(0), 0)

Fields == {"domain", "type", "protocol"}

FieldEnum(f) ==
    CASE f = "domain"   -> "AddressFamily"
      [] f = "type"     -> "SocketType"
      [] f = "protocol" -> "IPProtocol"

NoArgs == [domain |-> Num(0), type |-> Num(0), protocol |-> Num(0)]

----------------------------------------------------------------------------
Init ==
    /\ platform \in Platforms
    /\ x = [t \in Threads |-> Unset]
    /\ from = [t \in Threads |-> NoFrom]
    /\ ret = [t \in Threads |-> NoRet]
    /\ params = [f \in Fields |-> Unset]
    /\ paramsFrom = [f \in Fields |-> NoFrom]
    /\ sysargs = NoArgs
    /\ pc = "select"

socketVars == <<params, paramsFrom, sysargs, pc>>
threadVars == <<x, from, ret>>

\* the value is kept in a variable all threads share
ConstructShared(t, e, n) ==
    /\ x' = [u \in Threads |-> FromRaw(platform, e, n)]
    /\ from' = [from EXCEPT ![t] = RawFrom(e, n)]
    /\ ret' = [ret EXCEPT ![t] = NoRet]
    /\ UNCHANGED <<platform, socketVars>>

\* thread t converts the integer n to enumeration e and keeps the value
Construct(t, e, n) ==
    /\ x' = [x EXCEPT ![t] = FromRaw(platform, e, n)]
    /\ from' = [from EXCEPT ![t] = RawFrom(e, n)]
    /\ ret' = [ret EXCEPT ![t] = NoRet]
    /\ UNCHANGED <<platform, socketVars>>

\* thread t keeps the enumerator v of enumeration e
ConstructNamed(t, e, v) ==
    /\ x' = [x EXCEPT ![t] = Named(platform, e, v)]
    /\ from' = [from EXCEPT ![t] = NamedFrom(e, v)]
    /\ ret' = [ret EXCEPT ![t] = NoRet]
    /\ UNCHANGED <<platform, socketVars>>

\* thread t reads the raw integer of the value it holds
RawValue(t) ==
    /\ IsValue(x[t])
    /\ ret' = [ret EXCEPT ![t] = Ret("rawValue", Num(0), "", ToRaw(x[t]), 0)]
    /\ UNCHANGED <<platform, x, from, socketVars>>

\* thread t compares the value it holds with (E)m
CompareRaw(t, m) ==
    /\ IsValue(x[t])
    /\ LET rhs == FromRaw(platform, x[t].enum, m)
       IN  /\ IsValue(rhs)
           /\ ret' = [ret EXCEPT ![t] =
                         Ret("eqRaw", m, "", Num(0), Equal(x[t], rhs))]
    /\ UNCHANGED <<platform, x, from, socketVars>>

\* thread t compares the value it holds with the enumerator v of its type
CompareNamed(t, v) ==
    /\ IsValue(x[t])
    /\ v \in Enumerators(x[t].enum)
    /\ ret' = [ret EXCEPT ![t] =
                  Ret("eqNamed", Num(0), v, Num(0),
                      Equal(x[t], Named(platform, x[t].enum, v)))]
    /\ UNCHANGED <<platform, x, from, socketVars>>

AllNames == UNION {Enumerators(e) : e \in Enums}

\* one caller, every input
Next ==
    \/ \E e \in Enums : \E n \in RawInputs(platform, e) : Construct(Main, e, n)
    \/ \E e \in Enums : \E v \in Enumerators(e) : ConstructNamed(Main, e, v)
    \/ RawValue(Main)
    \/ \E e \in Enums : \E m \in RawInputs(platform, e) :
          x[Main].enum = e /\ CompareRaw(Main, m)
    \/ \E v \in AllNames : CompareNamed(Main, v)

Spec == Init /\ [][Next]_vars

----------------------------------------------------------------------------
(* Threads: each thread works on its own locals; steps interleave freely *)

NextThreads ==
    \E t \in Threads :
        \/ \E e \in Enums : \E n \in ThreadInputs(platform, e) :
              Construct(t, e, n)
        \/ \E e \in Enums : \E v \in ThreadNames(e) : ConstructNamed(t, e, v)
        \/ RawValue(t)
        \/ \E e \in Enums : \E m \in ThreadInputs(platform, e) :
              x[t].enum = e /\ CompareRaw(t, m)
        \/ \E e \in Enums : \E v \in ThreadNames(e) : CompareNamed(t, v)

SpecThreads == Init /\ [][NextThreads]_vars

----------------------------------------------------------------------------
(* The caller of socket(domain, type, protocol) *)

\* the caller selects (E)n for argument f
Select(f, n) ==
    /\ pc = "select"
    /\ params' = [params EXCEPT ![f] = FromRaw(platform, FieldEnum(f), n)]
    /\ paramsFrom' = [paramsFrom EXCEPT ![f] = RawFrom(FieldEnum(f), n)]
    /\ UNCHANGED <<platform, threadVars, sysargs, pc>>

\* the caller selects the enumerator v for argument f
SelectNamed(f, v) ==
    /\ pc = "select"
    /\ v \in Enumerators(FieldEnum(f))
    /\ params' = [params EXCEPT ![f] = Named(platform, FieldEnum(f), v)]
    /\ paramsFrom' = [paramsFrom EXCEPT ![f] = NamedFrom(FieldEnum(f), v)]
    /\ UNCHANGED <<platform, threadVars, sysargs, pc>>

\* the type and the protocol are passed in each other's place
SocketSwapped ==
    /\ pc = "select"
    /\ \A f \in Fields : IsValue(params[f])
    /\ sysargs' = [domain   |-> ToRaw(params["domain"]),
                   type     |-> ToRaw(params["protocol"]),
                   protocol |-> ToRaw(params["type"])]
    /\ pc' = "called"
    /\ UNCHANGED <<platform, threadVars, params, paramsFrom>>

\* the caller converts the three values to their integers and calls socket()
Socket ==
    /\ pc = "select"
    /\ \A f \in Fields : IsValue(params[f])
    /\ sysargs' = [f \in Fields |-> ToRaw(params[f])]
    /\ pc' = "called"
    /\ UNCHANGED <<platform, threadVars, params, paramsFrom>>

\* socket() returns; the caller keeps its three values
Return ==
    /\ pc = "called"
    /\ sysargs' = NoArgs
    /\ pc' = "select"
    /\ UNCHANGED <<platform, threadVars, params, paramsFrom>>

NextSocket ==
    \/ \E f \in Fields : \E n \in RawInputs(platform, FieldEnum(f)) : Select(f, n)
    \/ \E f \in Fields : \E v \in AllNames : SelectNamed(f, v)
    \/ Socket
    \/ Return

SpecSocket == Init /\ [][NextSocket]_vars

----------------------------------------------------------------------------
(* What the operations are expected to give *)

\* the macro the specification names for each enumerator
OSConstantOf ==
    [unix |-> "AF_UNIX", inet |-> "AF_INET", inet6 |-> "AF_INET6",
     link |-> "AF_LINK",
     stream |-> "SOCK_STREAM", datagram |-> "SOCK_DGRAM", raw |-> "SOCK_RAW",
     seqpacket |-> "SOCK_SEQPACKET",
     tcp |-> "IPPROTO_TCP", udp |-> "IPPROTO_UDP", icmp |-> "IPPROTO_ICMP",
     icmpv6 |-> "IPPROTO_ICMPV6"]

\* the platform's constant for the concept v names
OSConstant(v) == Num(Headers[platform][OSConstantOf[v]])

\* the integer a construction stands for
IntegerOf(f) == IF f.kind = "named" THEN OSConstant(f.name) ELSE f.n

\* the enumerators of e whose constant is a
Matches(e, a) == {v \in DOMAIN OSConstantOf :
                     v \in Enumerators(e) /\ OSConstant(v) = a}

Bool(b) == IF b THEN 1 ELSE 0

----------------------------------------------------------------------------
(* Claims *)

\* C1: the raw integer of every named variant is the platform's OS constant
\* for its concept, on every platform: a value made from the name holds that
\* constant, and reading its raw integer returns it.
NamedRawValueIsOSConstant ==
    \A t \in Threads :
        from[t].kind = "named" =>
            /\ x[t].rawValue = OSConstant(from[t].name)
            /\ ret[t].op = "rawValue" => ret[t].out = OSConstant(from[t].name)

\* inet6 read back on a platform whose AF_INET6 is not Darwin's
WitnessNamedRawValue ==
    \E t \in Threads :
        /\ platform = "freebsd"
        /\ from[t].kind = "named" /\ from[t].name = "inet6"
        /\ ret[t].op = "rawValue"

\* C2: for every integer n of int32_t, constructing a value from n and
\* reading back its raw integer yields n.
RoundTrip ==
    \A t \in Threads :
        (from[t].kind = "raw" /\ InInt32(from[t].n) /\ ret[t].op = "rawValue")
            => ret[t].out = from[t].n

\* the round trip of the least int32_t, which no enumerator names
WitnessRoundTrip ==
    \E t \in Threads :
        /\ from[t].kind = "raw" /\ from[t].n = INT32_MIN
        /\ Matches(from[t].enum, from[t].n) = {}
        /\ ret[t].op = "rawValue"

\* C3: the value constructed from m equals the value constructed from n if
\* and only if m = n.
EqualIffSameInteger ==
    \A t \in Threads :
        (from[t].kind = "raw" /\ ret[t].op = "eqRaw")
            => ret[t].eq = Bool(from[t].n = ret[t].n)

\* two different integers with the same low byte compared unequal
WitnessEqualIffSameInteger ==
    \E t \in Threads :
        /\ from[t].kind = "raw" /\ from[t].n = Num(65536 + 2)
        /\ ret[t].op = "eqRaw" /\ ret[t].n = Num(2)
        /\ ret[t].eq = 0

\* C4: constructing a value from an integer that matches no named variant
\* does not fail: the result is a value of the enumeration holding that
\* integer, its raw integer can be read and it can be compared.
UnnamedConstructionSucceeds ==
    \A t \in Threads :
        (from[t].kind = "raw" /\ Matches(from[t].enum, from[t].n) = {}) =>
            /\ IsValue(x[t])
            /\ x[t].enum = from[t].enum
            /\ ENABLED RawValue(t)
            /\ ENABLED CompareRaw(t, from[t].n)
            /\ \A v \in Enumerators(from[t].enum) : ENABLED CompareNamed(t, v)
            /\ ret[t].op = "rawValue" => ret[t].out = from[t].n
            /\ ret[t].op = "eqNamed" => ret[t].eq = 0

\* an unnamed integer was constructed and then compared with itself
WitnessUnnamedConstruction ==
    \E t \in Threads :
        /\ from[t].kind = "raw" /\ from[t].n = Num(-1)
        /\ Matches(from[t].enum, from[t].n) = {}
        /\ ret[t].op = "eqRaw" /\ ret[t].n = from[t].n /\ ret[t].eq = 1

\* C5: a value constructed from the platform's OS constant for the concept
\* of a named variant equals that named variant.
FromOSConstantEqualsNamed ==
    \A t \in Threads :
        (/\ from[t].kind = "raw"
         /\ ret[t].op = "eqNamed"
         /\ from[t].n = OSConstant(ret[t].name))
            => ret[t].eq = 1

\* AddressFamily from the platform's AF_INET compared with inet, and
\* SocketType from the platform's SOCK_DGRAM compared with datagram
WitnessFromOSConstant ==
    \E t \in Threads :
        /\ from[t].kind = "raw"
        /\ ret[t].op = "eqNamed"
        /\ \/ /\ from[t].enum = "AddressFamily"
              /\ from[t].n = Num(Headers[platform]["AF_INET"])
              /\ ret[t].name = "inet"
           \/ /\ from[t].enum = "SocketType"
              /\ from[t].n = Num(Headers[platform]["SOCK_DGRAM"])
              /\ ret[t].name = "datagram"

\* C6: IPProtocol from 9999 is a value, its raw integer is 9999, and it
\* equals none of tcp, udp, icmp, icmpv6.
IPProtocol9999 ==
    \A t \in Threads :
        (from[t].kind = "raw" /\ from[t].enum = "IPProtocol"
                              /\ from[t].n = Num(9999)) =>
            /\ IsValue(x[t])
            /\ ret[t].op = "rawValue" => ret[t].out = Num(9999)
            /\ (ret[t].op = "eqNamed"
                   /\ ret[t].name \in {"tcp", "udp", "icmp", "icmpv6"})
                  => ret[t].eq = 0

\* the raw integer of IPProtocol from 9999 was read
WitnessIPProtocol9999 ==
    \E t \in Threads :
        /\ from[t] = RawFrom("IPProtocol", Num(9999))
        /\ ret[t].op = "rawValue"

\* C9: within each enumeration the named variants have pairwise distinct raw
\* integers on the platform: an integer matches at most one of them, and two
\* different named variants compare unequal.
NamedVariantsDistinct ==
    /\ \A e \in Enums : \A v, w \in Enumerators(e) :
          v # w => EnumeratorValue(platform, e, v) # EnumeratorValue(platform, e, w)
    /\ \A t \in Threads :
          /\ IsValue(x[t]) =>
                Cardinality({v \in Enumerators(x[t].enum) :
                    Named(platform, x[t].enum, v) = x[t]}) <= 1
          /\ (from[t].kind = "named" /\ ret[t].op = "eqNamed"
                                     /\ ret[t].name # from[t].name)
                => ret[t].eq = 0

\* raw compared with seqpacket
WitnessNamedVariantsDistinct ==
    \E t \in Threads :
        /\ from[t].kind = "named" /\ from[t].name = "raw"
        /\ ret[t].op = "eqNamed" /\ ret[t].name = "seqpacket"

\* C10: every value has a raw integer in -2^31 .. 2^31 - 1, and every named
\* variant's OS constant lies in that range, so that binding it neither
\* truncates nor wraps it.
RawValueInInt32 ==
    /\ \A t \in Threads :
          /\ InInt32(x[t].rawValue)
          /\ ret[t].op = "rawValue" => InInt32(ret[t].out)
    /\ \A e \in Enums : \A v \in Enumerators(e) :
          /\ InInt32(OSConstant(v))
          /\ EnumeratorValue(platform, e, v) = OSConstant(v)

\* the raw integer of a negative value was read
WitnessRawValueInInt32 ==
    \E t \in Threads :
        /\ from[t].kind = "raw" /\ from[t].n = Num(-1)
        /\ ret[t].op = "rawValue"

\* C7: under every interleaving of threads that construct values, compare
\* them and read raw integers, each operation returns what it returns when
\* run alone, and no operation changes a value another thread holds.
ResultsAsAlone ==
    \A t \in Threads :
        /\ from[t].kind # "none" =>
              x[t] = Value(from[t].enum, IntegerOf(from[t]))
        /\ ret[t].op = "rawValue" => ret[t].out = IntegerOf(from[t])
        /\ ret[t].op = "eqRaw" =>
              ret[t].eq = Bool(IntegerOf(from[t]) = ret[t].n)
        /\ ret[t].op = "eqNamed" =>
              ret[t].eq = Bool(IntegerOf(from[t]) = OSConstant(ret[t].name))

OthersUntouched ==
    /\ platform' = platform
    /\ \E t \in Threads : \A u \in Threads \ {t} :
          x'[u] = x[u] /\ from'[u] = from[u] /\ ret'[u] = ret[u]

ThreadsDoNotInterfere == []ResultsAsAlone /\ [][OthersUntouched]_vars

\* one thread read the raw integer of its value after another thread had
\* constructed a different value of the same enumeration
WitnessThreads ==
    \E t, u \in Threads :
        /\ t # u
        /\ from[t].kind = "named" /\ ret[t].op = "rawValue"
        /\ from[u].kind = "raw" /\ from[u].enum = from[t].enum
        /\ ret[u].op = "eqRaw"
        /\ x[t] # x[u]

\* C8: every combination of an AddressFamily, a SocketType and an IPProtocol
\* can be selected, each component reaches socket() as its own raw integer,
\* and selecting one component leaves the other two unchanged.
TripleIsTyped ==
    \A f \in Fields :
        paramsFrom[f].kind # "none" =>
            params[f] = Value(FieldEnum(f), IntegerOf(paramsFrom[f]))

AnySelectable ==
    pc = "select" =>
        \A f \in Fields :
            /\ \A n \in RawInputs(platform, FieldEnum(f)) : ENABLED Select(f, n)
            /\ \A v \in Enumerators(FieldEnum(f)) : ENABLED SelectNamed(f, v)

ArgsAreOwnRaw ==
    pc = "called" =>
        \A f \in Fields : sysargs[f] = IntegerOf(paramsFrom[f])

OtherComponentsKept ==
    \A f \in Fields :
        params'[f] # params[f] =>
            \A g \in Fields \ {f} :
                params'[g] = params[g] /\ ToRaw(params'[g]) = ToRaw(params[g])

TripleIndependent ==
    /\ [](TripleIsTyped /\ AnySelectable /\ ArgsAreOwnRaw)
    /\ [][OtherComponentsKept]_vars

\* socket() was called with a named domain, an unnamed type and a named
\* protocol whose integers all differ
WitnessTriple ==
    /\ pc = "called"
    /\ paramsFrom["domain"] = NamedFrom("AddressFamily", "inet6")
    /\ paramsFrom["type"] = RawFrom("SocketType", Num(9999))
    /\ paramsFrom["protocol"] = NamedFrom("IPProtocol", "udp")

====
